---- MODULE Spec2Model ----
(***************************************************************************)
(* Model of src/components/modules/sanitizer.ts (class Sanitizer).         *)
(*                                                                         *)
(* JavaScript values (block data, sanitizer rules) are encoded as records  *)
(*   [t, s, items, fields]                                                 *)
(* where t is the JavaScript type of the value, s the payload of a         *)
(* primitive (a string is the sequence of its tokens: "txt" is plain text, *)
(* any other token is the tag of that name), items the elements of an      *)
(* array and fields the own properties of an object.                       *)
(***************************************************************************)
EXTENDS Integers, Sequences, FiniteSets, TLC

VARIABLES
  available,              \* Tools.available: tool name -> declared sanitize rules
  toolsSettings,          \* Tools.getToolSettings: tool name -> inlineToolbar setting
  inline,                 \* Tools.inline: sequence of [name, rules], in registration order
  configCache,            \* Sanitizer.configCache
  inlineToolsConfigCache, \* Sanitizer.inlineToolsConfigCache
  call,                   \* the last call made on the sanitizer and what it returned
  firstConfig,            \* per tool: what the first composeToolConfig call returned
  computes                \* how often the inline registry was iterated and merged

vars == <<available, toolsSettings, inline, configCache, inlineToolsConfigCache,
          call, firstConfig, computes>>

registry == <<available, toolsSettings, inline>>

-----------------------------------------------------------------------------
(* JavaScript values *)

NoFields == <<>>

Mk(t, s, items, fields) == [t |-> t, s |-> s, items |-> items, fields |-> fields]

Str(s)     == Mk("str", s, <<>>, NoFields)
Num(n)     == Mk("num", <<n>>, <<>>, NoFields)
Bool(b)    == Mk("bool", <<IF b THEN "true" ELSE "false">>, <<>>, NoFields)
Null       == Mk("null", <<>>, <<>>, NoFields)
Undefined  == Mk("undef", <<>>, <<>>, NoFields)
Fn         == Mk("fn", <<"f">>, <<>>, NoFields)
Arr(items) == Mk("arr", <<>>, items, NoFields)
Obj(fields) == Mk("obj", <<>>, <<>>, fields)

EmptyObj == Obj(NoFields)
True     == Bool(TRUE)
False    == Bool(FALSE)

\* typeof v === 'object' (true of null as well)
TypeofObject(v) == v.t \in {"obj", "arr", "null"}

\* ToBoolean(v), as used by if (v), !v, v || w
Truthy(v) ==
  CASE v.t \in {"obj", "arr", "fn"} -> TRUE
    [] v.t = "bool" -> v.s = <<"true">>
    [] v.t = "num"  -> v.s # <<"0">>
    [] v.t = "str"  -> v.s # <<>>
    [] OTHER        -> FALSE

\* own enumerable property names of v (for..in guarded by hasOwnProperty)
OwnKeys(v) == IF v.t = "obj" THEN DOMAIN v.fields ELSE {}

\* v[k]; only called on values that are neither null nor undefined
Get(v, k) == IF k \in OwnKeys(v) THEN v.fields[k] ELSE Undefined

\* Object.assign(target, source) on a target object: own properties of
\* source are written over those of target; null and primitives add nothing
Assign(target, source) ==
  Obj([k \in OwnKeys(target) \cup OwnKeys(source) |->
         IF k \in OwnKeys(source) THEN source.fields[k] ELSE target.fields[k]])

\* the order in which for..in visits the property names of an object
KeyOrder == <<"text", "level", "items", "a", "b", "i", "br", "wbr", "href">>

RECURSIVE KeysInOrder(_, _)
KeysInOrder(keys, i) ==
  IF i > Len(KeyOrder) THEN <<>>
  ELSE (IF KeyOrder[i] \in keys THEN <<KeyOrder[i]>> ELSE <<>>)
         \o KeysInOrder(keys, i + 1)

-----------------------------------------------------------------------------
(* Tree sanitizer *)

\* the element of a set of one element; The({e(x) : x \in {v}}) is e with x
\* bound to the value of v, computed once
The(S) == CHOOSE x \in S : TRUE

\* what a method returned: its value, the calls it made to sanitizeHTML
\* (in order) and whether it threw instead of returning
Ret(v, calls) == [val |-> v, calls |-> calls, err |-> FALSE]
Thrown(calls) == [val |-> Undefined, calls |-> calls, err |-> TRUE]

CleanCall(s, cfg) == [str |-> s, cfg |-> cfg]

\* tags sanitize-html lets through when it is given no options
DefaultAllowedTags == {"b", "i", "a", "br"}

\* the cleaning primitive: drops every tag the options do not allow
sanitizeHTML(s, options) ==
  LET allowed(tok) ==
        \/ tok = "txt"
        \/ /\ options.t = "obj"
           /\ tok \in OwnKeys(options)
           /\ options.fields[tok] # False
        \/ /\ options.t \in {"null", "undef"}
           /\ tok \in DefaultAllowedTags
  IN SelectSeq(s, allowed)

clean(taintString, customConfig) ==
  LET config == IF customConfig = Undefined THEN EmptyObj ELSE customConfig
  IN Ret(Str(sanitizeHTML(taintString.s, config)),
         <<CleanCall(taintString.s, config)>>)

cleanOneItem(taintString, rule) ==
  IF TypeofObject(rule) THEN clean(taintString, rule)
  ELSE IF rule = False THEN clean(taintString, EmptyObj)
  ELSE Ret(taintString, <<>>)

isRule(config) ==
  TypeofObject(config) \/ config.t = "bool" \/ config.t = "fn"

RECURSIVE deepSanitize(_, _), cleanArrayFrom(_, _, _, _), cleanObjectFrom(_, _, _, _)

\* array.map(...) from the i-th item on; acc holds the items mapped so far
cleanArrayFrom(array, ruleForItem, i, acc) ==
  IF i > Len(array.items) THEN acc
  ELSE LET r == deepSanitize(array.items[i], ruleForItem)
       IN IF r.err THEN Thrown(acc.calls \o r.calls)
          ELSE cleanArrayFrom(array, ruleForItem, i + 1,
                 Ret(Arr(Append(acc.val.items, r.val)), acc.calls \o r.calls))

\* a slip of cleanArray: the first item is dropped
cleanArrayFromSecond(array, ruleForItem) ==
  cleanArrayFrom(array, ruleForItem, 2, Ret(Arr(<<>>), <<>>))

cleanArray(array, ruleForItem) ==
  cleanArrayFrom(array, ruleForItem, 1, Ret(Arr(<<>>), <<>>))

\* the for..in loop over the field names still to visit; acc holds cleanData
cleanObjectFrom(object, rules, names, acc) ==
  IF names = <<>> THEN acc
  ELSE LET fieldName == Head(names)
           currentIterationItem == object.fields[fieldName]
       IN IF rules.t \in {"null", "undef"}
          THEN Thrown(acc.calls)      \* rules[fieldName] is a TypeError
          ELSE LET ruleForItem == IF isRule(Get(rules, fieldName))
                                  THEN Get(rules, fieldName) ELSE rules
                   r == deepSanitize(currentIterationItem, ruleForItem)
               IN IF r.err THEN Thrown(acc.calls \o r.calls)
                  ELSE cleanObjectFrom(object, rules, Tail(names),
                         Ret(Obj((fieldName :> r.val) @@ acc.val.fields),
                             acc.calls \o r.calls))

cleanObject(object, rules) ==
  cleanObjectFrom(object, rules, KeysInOrder(OwnKeys(object), 1), Ret(EmptyObj, <<>>))

deepSanitize(dataToSanitize, rules) ==
  IF dataToSanitize.t = "arr" THEN cleanArray(dataToSanitize, rules)
  ELSE IF TypeofObject(dataToSanitize) THEN cleanObject(dataToSanitize, rules)
  ELSE IF dataToSanitize.t = "str" THEN cleanOneItem(dataToSanitize, rules)
  ELSE Ret(dataToSanitize, <<>>)

-----------------------------------------------------------------------------
(* Rule composer *)

\* _.isEmpty of components/utils
isEmpty(object) == ~Truthy(object) \/ (object.t = "obj" /\ OwnKeys(object) = {})

\* Tools.inline[inlineToolName][Tools.INTERNAL_SETTINGS.SANITIZE_CONFIG]
InlineSanitize(inlineToolName) ==
  LET i == CHOOSE j \in 1..Len(inline) : inline[j].name = inlineToolName
  IN inline[i].sanitize

\* a slip of AssignTarget: the merge is seeded with the first inline tool's own
\* rules object instead of {}
AssignTargetFirstSource(sources) ==
  IF sources = <<>> THEN 0 ELSE sources[1]

\* The object the inline rules are assigned into, and br and wbr written to
\* after: 0 is a new object (the {} of lines 187 and 225), i > 0 would be the
\* rules object of the i-th inline tool. sources are the positions of the
\* inline tools whose rules are assigned, in order.
AssignTarget(sources) == 0

\* Tools.inline after config was built in (and written to) the target object
Written(target, config) ==
  IF target = 0 THEN inline ELSE [inline EXCEPT ![target].sanitize = config]

\* the position of an inline tool in Tools.inline
InlineIndex(inlineToolName) ==
  CHOOSE j \in 1..Len(inline) : inline[j].name = inlineToolName

\* a slip of AllowLinebreaks: nothing is forced into the config
AllowLinebreaksForgotten(config) == config

\* a slip of AllowLinebreaks: wbr is forgotten
AllowLinebreaksBrOnly(config) ==
  Assign(config, Obj([k \in {"br"} |-> True]))

\* config['br'] = true; config['wbr'] = true
AllowLinebreaks(config) ==
  Assign(config, Obj([k \in {"br", "wbr"} |-> True]))

\* Object.entries(Tools.inline).forEach(...) from the i-th inline tool on
RECURSIVE AssignAllInline(_, _)
AssignAllInline(config, i) ==
  IF i > Len(inline) THEN config
  ELSE AssignAllInline(Assign(config, inline[i].sanitize), i + 1)

\* a slip of getAllInlineToolsConfig: the cache is tested with _.isEmpty, so an
\* aggregate without keys counts as not cached
getAllInlineToolsConfigIfNotEmpty(cache) ==
  IF ~isEmpty(cache)
  THEN [ret |-> cache, cache |-> cache, computed |-> FALSE, inline |-> inline]
  ELSE LET config == AssignAllInline(EmptyObj, 1)
       IN [ret |-> config, cache |-> config, computed |-> TRUE, inline |-> inline]

\* returns the aggregate, the cache after the call, whether the inline
\* registry was iterated, and Tools.inline after the call
getAllInlineToolsConfig(cache) ==
  IF Truthy(cache)
  THEN [ret |-> cache, cache |-> cache, computed |-> FALSE, inline |-> inline]
  ELSE LET config == AssignAllInline(EmptyObj, 1)
           target == AssignTarget([i \in 1..Len(inline) |-> i])
       IN [ret |-> config, cache |-> config, computed |-> TRUE,
           inline |-> Written(target, config)]

\* a slip of AssignEnabled: the arguments of Object.assign are swapped, so the
\* tool listed first wins
RECURSIVE AssignEnabledFirstWins(_, _, _)
AssignEnabledFirstWins(config, names, i) ==
  IF i > Len(names) THEN config
  ELSE AssignEnabledFirstWins(Assign(InlineSanitize(names[i].s[1]), config), names, i + 1)

\* enableInlineTools.map(...) from the i-th listed name on
RECURSIVE AssignEnabled(_, _, _)
AssignEnabled(config, names, i) ==
  IF i > Len(names) THEN config
  ELSE AssignEnabled(Assign(config, InlineSanitize(names[i].s[1])), names, i + 1)

\* a slip of getInlineToolsConfig: br and wbr are allowed only in an aggregate
\* that was just computed, a cached one is taken to carry them already
getInlineToolsConfigTrustsCache(name, cache) ==
  LET enableInlineTools == IF Truthy(toolsSettings[name])
                           THEN toolsSettings[name] ELSE Arr(<<>>)
  IN IF enableInlineTools.t = "bool" /\ Truthy(enableInlineTools)
     THEN LET all == getAllInlineToolsConfig(cache)
              config == IF all.computed THEN AllowLinebreaks(all.ret) ELSE all.ret
          IN [ret |-> config, cache |-> config, computed |-> all.computed,
              inline |-> all.inline]
     ELSE LET names == enableInlineTools.items
              config == AllowLinebreaks(AssignEnabled(EmptyObj, names, 1))
          IN [ret |-> config, cache |-> cache, computed |-> FALSE, inline |-> inline]

\* In the branch for inlineToolbar === true, config is the very object held in
\* inlineToolsConfigCache, so the two assignments that allow linebreaks are
\* made on the cached aggregate.
getInlineToolsConfig(name, cache) ==
  LET enableInlineTools == IF Truthy(toolsSettings[name])
                           THEN toolsSettings[name] ELSE Arr(<<>>)
  IN IF enableInlineTools.t = "bool" /\ Truthy(enableInlineTools)
     THEN The({ LET config == AllowLinebreaks(all.ret)
                IN [ret |-> config, cache |-> config, computed |-> all.computed,
                    inline |-> all.inline]
                : all \in {getAllInlineToolsConfig(cache)} })
     ELSE LET names == enableInlineTools.items
              config == AllowLinebreaks(AssignEnabled(EmptyObj, names, 1))
              target == AssignTarget([i \in 1..Len(names) |-> InlineIndex(names[i].s[1])])
          IN [ret |-> config, cache |-> cache, computed |-> FALSE,
              inline |-> Written(target, config)]

\* The object line 164 assigns baseConfig and the declared rule into: the {}
\* literal ("new"), not the declared rule itself ("rule").
FieldTarget(rule) == "new"

\* Tools.available after toolConfig was composed for the tool
WrittenRules(toolName, toolConfig) ==
  LET toolRules == available[toolName]
      written == Obj([fieldName \in OwnKeys(toolRules) |->
                        IF FieldTarget(toolRules.fields[fieldName]) = "new"
                        THEN toolRules.fields[fieldName]
                        ELSE toolConfig.fields[fieldName]])
  IN [available EXCEPT ![toolName] = written]

\* a slip of ComposeField: the base set is assigned over the declared rule
ComposeFieldBaseWins(baseConfig, rule) ==
  IF TypeofObject(rule) THEN Assign(Assign(EmptyObj, rule), baseConfig) ELSE rule

\* toolConfig[fieldName] for one field of the tool's declared rules
ComposeField(baseConfig, rule) ==
  IF TypeofObject(rule) THEN Assign(Assign(EmptyObj, baseConfig), rule) ELSE rule

\* returns the config, both caches and the registry after the call, whether
\* the call went to the registry, whether the inline registry was iterated,
\* and whether it threw (an unregistered tool has no tool class: reading
\* toolClass.sanitize is a TypeError)
\* Tools.INTERNAL_SETTINGS.SANITIZE_CONFIG names the property 'sanitize', so
\* toolClass[sanitizeGetter] and toolClass.sanitize are the declared rules.
composeToolConfig(toolName, cc, ic) ==
  IF Truthy(cc[toolName])
  THEN [ret |-> cc[toolName], cc |-> cc, ic |-> ic, queried |-> FALSE,
        computed |-> FALSE, err |-> FALSE, inline |-> inline, available |-> available]
  ELSE IF toolName \notin DOMAIN available
  THEN [ret |-> Undefined, cc |-> cc, ic |-> ic, queried |-> TRUE,
        computed |-> FALSE, err |-> TRUE, inline |-> inline, available |-> available]
  ELSE The({
         LET toolRules == available[toolName]
             baseConfig == base.ret
         IN IF ~Truthy(toolRules) \/ (Truthy(toolRules) /\ isEmpty(toolRules))
            THEN [ret |-> baseConfig, cc |-> cc, ic |-> base.cache, queried |-> TRUE,
                  computed |-> base.computed, err |-> FALSE, inline |-> base.inline,
                  available |-> available]
            ELSE LET toolConfig ==
                       Obj([fieldName \in OwnKeys(toolRules) |->
                              ComposeField(baseConfig, toolRules.fields[fieldName])])
                 IN [ret |-> toolConfig, cc |-> [cc EXCEPT ![toolName] = toolConfig],
                     ic |-> base.cache, queried |-> TRUE,
                     computed |-> base.computed, err |-> FALSE, inline |-> base.inline,
                     available |-> WrittenRules(toolName, toolConfig)]
         : base \in {getInlineToolsConfig(toolName, ic)} })

-----------------------------------------------------------------------------
(* Batch entry point *)

\* blocksData.map(...) from the i-th block on. The blocks are the caller's
\* objects: block.data is assigned in place, so whatever was replaced stays
\* replaced when a later block makes the call throw.
RECURSIVE sanitizeBlocksFrom(_, _, _, _, _)
sanitizeBlocksFrom(blocksData, i, cc, ic, replaced) ==
  IF i > Len(blocksData)
  THEN [blocks |-> blocksData, cc |-> cc, ic |-> ic, replaced |-> replaced, err |-> FALSE,
        computes |-> 0, inline |-> inline, available |-> available]
  ELSE The({
         LET block == blocksData[i]
             cleaned == deepSanitize(block.data, toolConfig.ret)
             computed == IF toolConfig.computed THEN 1 ELSE 0
             \* what the call for this block did is added to what the rest did
             after(rest) ==
               [rest EXCEPT
                  !.computes = @ + computed,
                  !.inline = IF toolConfig.inline = inline THEN @ ELSE toolConfig.inline,
                  !.available = IF toolConfig.available = available
                                THEN @ ELSE toolConfig.available]
             thrown == [blocks |-> blocksData, cc |-> toolConfig.cc, ic |-> toolConfig.ic,
                        replaced |-> replaced, err |-> TRUE, computes |-> computed,
                        inline |-> toolConfig.inline, available |-> toolConfig.available]
         IN IF toolConfig.err THEN thrown
            ELSE IF isEmpty(toolConfig.ret)
            THEN after(sanitizeBlocksFrom(blocksData, i + 1, toolConfig.cc, toolConfig.ic,
                                          replaced))
            ELSE IF cleaned.err THEN thrown
            ELSE after(sanitizeBlocksFrom([blocksData EXCEPT ![i].data = cleaned.val],
                                          i + 1, toolConfig.cc, toolConfig.ic,
                                          replaced \cup {i}))
         : toolConfig \in {composeToolConfig(blocksData[i].tool, cc, ic)} })

\* a slip of sanitizeBlocks: the first block is passed over
sanitizeBlocksSkipFirst(blocksData, cc, ic) == sanitizeBlocksFrom(blocksData, 2, cc, ic, {})

sanitizeBlocks(blocksData, cc, ic) == sanitizeBlocksFrom(blocksData, 1, cc, ic, {})

-----------------------------------------------------------------------------
(* Bounds and inputs *)

MaxBatch == 2     \* longest batch handed to sanitizeBlocks
MaxLen   == 2     \* longest array in the data handed to deepSanitize
MaxDepth == 2     \* deepest nesting of the data handed to deepSanitize
MaxComputes == 2  \* the count of merges of the inline registry stops here

ToolNames   == {"paragraph", "header"}
UnknownTool == "unknown"

Name(n) == Str(<<n>>)

InlineTool(name, sanitize) == [name |-> name, sanitize |-> sanitize]

\* the inline tools a session may be started with
InlineRegistries ==
  { <<InlineTool("link", Obj([a |-> Obj([href |-> True]), b |-> False])),
      InlineTool("bold", Obj([b |-> True, br |-> False]))>>,
    <<InlineTool("bold", EmptyObj), InlineTool("link", EmptyObj)>>,
    <<>> }

Descriptor(sanitize, inlineToolbar) ==
  [sanitize |-> sanitize, inlineToolbar |-> inlineToolbar]

BoldLink == Arr(<<Name("bold"), Name("link")>>)
LinkBold == Arr(<<Name("link"), Name("bold")>>)

\* the block tools a session may be started with: the sanitize rules the
\* tool class declares and the inlineToolbar setting it is registered with
ToolDescriptors ==
  { Descriptor(Undefined, True),
    Descriptor(Undefined, BoldLink),
    Descriptor(Undefined, False),
    Descriptor(EmptyObj, Undefined),
    Descriptor(Obj([text |-> Obj([a |-> True])]), True),
    Descriptor(Obj([text |-> Obj([br |-> False]), level |-> False]), LinkBold),
    Descriptor(Obj([text |-> Obj([br |-> False]), level |-> False]), True),
    Descriptor(Obj([text |-> True, level |-> Num("1"), items |-> Fn]), True),
    Descriptor(Obj([text |-> EmptyObj]), BoldLink) }

HeaderDescriptors ==
  { Descriptor(Obj([text |-> Obj([wbr |-> False]), level |-> False]), True) }

InlineNames(reg) == {reg[i].name : i \in 1..Len(reg)}

\* every inline tool a setting lists is registered
Listed(setting, reg) ==
  setting.t = "arr" =>
    \A i \in 1..Len(setting.items) : setting.items[i].s[1] \in InlineNames(reg)

\* the blocks a batch is made of
Entries ==
  { [tool |-> "paragraph",
     data |-> Obj([text |-> Str(<<"b", "txt", "i", "br">>), level |-> Num("1"),
                   b |-> Str(<<"i", "txt">>)])],
    [tool |-> "header",
     data |-> Arr(<<Str(<<"a", "txt", "i">>), Num("0")>>)],
    [tool |-> UnknownTool, data |-> Str(<<"b", "txt">>)] }

Batches == UNION {[1..n -> Entries] : n \in 1..MaxBatch}

\* the data handed to deepSanitize directly
Strings  == { <<"txt">>, <<"b", "txt", "i">> }
DataKeys == { "text", "b" }

Leaves == {Str(x) : x \in Strings} \cup {Num("1"), True, Null, Undefined}

ArraysOf(S)  == {Arr(x) : x \in UNION {[1..n -> S] : n \in 0..MaxLen}}
ObjectsOf(S) == {Obj(x) : x \in UNION {[K -> S] : K \in SUBSET DataKeys}}

\* a value wrapped in one more array or one more object
Nested(S) ==
  S \cup {Arr(<<x>>) : x \in S} \cup {Obj(k :> x) : k \in DataKeys, x \in S}

RECURSIVE ValuesOfDepth(_)
ValuesOfDepth(d) ==
  IF d <= 1 THEN Leaves \cup ArraysOf(Leaves) \cup ObjectsOf(Leaves)
  ELSE Nested(ValuesOfDepth(d - 1))

DataValues == ValuesOfDepth(MaxDepth)

\* the rules handed to deepSanitize directly
FieldRuleValues == { True, False, Null, Num("1"), Fn, Obj([b |-> True]) }

RuleValues ==
  { True, False, Fn, Num("1"), Null, Undefined, Str(<<"txt">>) }
    \cup {Obj(x) : x \in UNION {[K -> FieldRuleValues] : K \in SUBSET DataKeys}}

-----------------------------------------------------------------------------
(* The sanitizer as a state machine *)

Call(op, tool, ret, err) ==
  [op |-> op, tool |-> tool, ret |-> ret, err |-> err,
   queried |-> FALSE, again |-> FALSE, computed |-> FALSE,
   arg |-> <<>>, blocks |-> <<>>, replaced |-> {},
   data |-> Undefined, rules |-> Undefined, calls |-> <<>>]

NoCall == Call("none", "", Undefined, FALSE)

Init ==
  /\ inline \in InlineRegistries
  /\ \E p \in ToolDescriptors, h \in HeaderDescriptors :
       /\ available = [t \in ToolNames |->
                         IF t = "paragraph" THEN p.sanitize ELSE h.sanitize]
       /\ toolsSettings = [t \in ToolNames |->
                             IF t = "paragraph" THEN p.inlineToolbar ELSE h.inlineToolbar]
  /\ \A t \in ToolNames : Listed(toolsSettings[t], inline)
  /\ configCache = [t \in ToolNames \cup {UnknownTool} |-> Undefined]
  /\ inlineToolsConfigCache = Null
  /\ call = NoCall
  /\ firstConfig = [t \in ToolNames |-> Undefined]
  /\ computes = 0

\* the count of merges after n more
Counted(n) == IF computes + n > MaxComputes THEN MaxComputes ELSE computes + n

ComposeToolConfig(toolName) ==
  \E r \in {composeToolConfig(toolName, configCache, inlineToolsConfigCache)} :
  LET again == firstConfig[toolName] # Undefined
  IN /\ configCache' = r.cc
     /\ inlineToolsConfigCache' = r.ic
     /\ call' = [Call("composeToolConfig", toolName, r.ret, r.err) EXCEPT
                   !.queried = r.queried, !.again = again, !.computed = r.computed]
     /\ firstConfig' = IF again THEN firstConfig
                       ELSE [firstConfig EXCEPT ![toolName] = r.ret]
     /\ computes' = Counted(IF r.computed THEN 1 ELSE 0)
     /\ inline' = r.inline
     /\ available' = r.available
     /\ UNCHANGED toolsSettings

GetInlineToolsConfig(name) ==
  \E r \in {getInlineToolsConfig(name, inlineToolsConfigCache)} :
     /\ inlineToolsConfigCache' = r.cache
     /\ call' = [Call("getInlineToolsConfig", name, r.ret, FALSE) EXCEPT
                   !.computed = r.computed]
     /\ computes' = Counted(IF r.computed THEN 1 ELSE 0)
     /\ inline' = r.inline
     /\ UNCHANGED <<available, toolsSettings, configCache, firstConfig>>

GetAllInlineToolsConfig ==
  \E r \in {getAllInlineToolsConfig(inlineToolsConfigCache)} :
     /\ inlineToolsConfigCache' = r.cache
     /\ call' = [Call("getAllInlineToolsConfig", "", r.ret, FALSE) EXCEPT
                   !.computed = r.computed]
     /\ computes' = Counted(IF r.computed THEN 1 ELSE 0)
     /\ inline' = r.inline
     /\ UNCHANGED <<available, toolsSettings, configCache, firstConfig>>

SanitizeBlocks(blocksData) ==
  \E r \in {sanitizeBlocks(blocksData, configCache, inlineToolsConfigCache)} :
     /\ configCache' = r.cc
     /\ inlineToolsConfigCache' = r.ic
     /\ call' = [Call("sanitizeBlocks", "", Undefined, r.err) EXCEPT
                   !.arg = blocksData, !.blocks = r.blocks, !.replaced = r.replaced]
     /\ computes' = Counted(r.computes)
     /\ inline' = r.inline
     /\ available' = r.available
     /\ UNCHANGED <<toolsSettings, firstConfig>>

Next ==
  \/ \E t \in ToolNames : ComposeToolConfig(t)
  \/ \E t \in ToolNames : GetInlineToolsConfig(t)
  \/ GetAllInlineToolsConfig
  \/ \E b \in Batches : SanitizeBlocks(b)

Spec == Init /\ [][Next]_vars

-----------------------------------------------------------------------------
(* deepSanitize called on its own *)

\* the call about to be made: its two arguments
Pending(dataToSanitize, rules) ==
  [Call("pending", "", Undefined, FALSE) EXCEPT !.data = dataToSanitize, !.rules = rules]

InitDS ==
  /\ inline = <<InlineTool("bold", Obj([b |-> True]))>>
  /\ available = [t \in ToolNames |-> Undefined]
  /\ toolsSettings = [t \in ToolNames |-> True]
  /\ configCache = [t \in ToolNames \cup {UnknownTool} |-> Undefined]
  /\ inlineToolsConfigCache = Null
  /\ call \in {Pending(d, r) : d \in DataValues, r \in RuleValues}
  /\ firstConfig = [t \in ToolNames |-> Undefined]
  /\ computes = 0

DeepSanitize ==
  /\ call.op = "pending"
  /\ LET r == deepSanitize(call.data, call.rules)
     IN call' = [call EXCEPT !.op = "deepSanitize", !.ret = r.val, !.err = r.err,
                             !.calls = r.calls]
  /\ UNCHANGED <<registry, configCache, inlineToolsConfigCache, firstConfig, computes>>

\* deepSanitize applied to what the call before returned, under the same rules;
\* arg keeps the data of the call before
DeepSanitizeAgain ==
  /\ call.op = "deepSanitize"
  /\ ~call.err
  /\ LET r == deepSanitize(call.ret, call.rules)
     IN call' = [call EXCEPT !.op = "deepSanitizeAgain", !.arg = <<call.data>>,
                             !.data = call.ret, !.ret = r.val, !.err = r.err,
                             !.calls = r.calls]
  /\ UNCHANGED <<registry, configCache, inlineToolsConfigCache, firstConfig, computes>>

NextDS == DeepSanitize \/ DeepSanitizeAgain

SpecDS == InitDS /\ [][NextDS]_vars

-----------------------------------------------------------------------------
(* What the rule composer is expected to return, stated from the registry *)

\* the union of a sequence of rule sets, a later one overriding an earlier one
UnionOf(ruleSets) ==
  LET keys == UNION {OwnKeys(ruleSets[i]) : i \in 1..Len(ruleSets)}
      last(k) == CHOOSE i \in 1..Len(ruleSets) :
                   /\ k \in OwnKeys(ruleSets[i])
                   /\ \A j \in (i + 1)..Len(ruleSets) : k \notin OwnKeys(ruleSets[j])
  IN Obj([k \in keys |-> ruleSets[last(k)].fields[k]])

InlineUnion == UnionOf([i \in 1..Len(inline) |-> inline[i].sanitize])

ListedUnion(setting) ==
  UnionOf([i \in 1..Len(setting.items) |-> InlineSanitize(setting.items[i].s[1])])

\* the inline rules of a tool before br and wbr are forced in
EnabledInline(t) ==
  IF toolsSettings[t] = True THEN InlineUnion
  ELSE IF toolsSettings[t].t = "arr" THEN ListedUnion(toolsSettings[t])
  ELSE EmptyObj

WithLinebreaks(ruleSet) ==
  Obj([k \in OwnKeys(ruleSet) \cup {"br", "wbr"} |->
         IF k \in {"br", "wbr"} THEN True ELSE ruleSet.fields[k]])

HasLinebreaks(ruleSet) ==
  /\ {"br", "wbr"} \subseteq OwnKeys(ruleSet)
  /\ ruleSet.fields["br"] = True
  /\ ruleSet.fields["wbr"] = True

\* base overridden key by key by the declared rule
Overridden(base, declared) ==
  Obj([k \in OwnKeys(base) \cup OwnKeys(declared) |->
         IF k \in OwnKeys(declared) THEN declared.fields[k] ELSE base.fields[k]])

\* the tool declares rules of its own, and they are not empty
Declares(t) == available[t].t = "obj" /\ OwnKeys(available[t]) # {}

Composed(op) == call.op = op /\ ~call.err

-----------------------------------------------------------------------------
(* C1 - a second composeToolConfig(t) is answered from configCache: it returns
   what the first call returned and does not go to the registry again,
   whether or not t declares rules of its own. *)
C1_SecondCallFromCache ==
  (Composed("composeToolConfig") /\ call.again) =>
     /\ call.ret = firstConfig[call.tool]
     /\ ~call.queried

(* C2 - br and wbr are present with value true in every rule set returned by
   getInlineToolsConfig and in every rule set composeToolConfig produces,
   the per-field rule sets included, even when the declared rules set them
   to false. *)
C2_ForcedAllowance ==
  /\ Composed("getInlineToolsConfig") => HasLinebreaks(call.ret)
  /\ Composed("composeToolConfig") =>
       IF Declares(call.tool)
       THEN \A f \in OwnKeys(call.ret) :
              call.ret.fields[f].t = "obj" => HasLinebreaks(call.ret.fields[f])
       ELSE HasLinebreaks(call.ret)

(* C2, amended - getInlineToolsConfig and the base set composeToolConfig returns
   for a tool without rules always carry br and wbr with value true; a
   per-field rule set composed from a declared mapping carries both keys,
   with value true unless the declared mapping sets the key itself, and then
   with the declared value. *)
C2_LinebreaksUnlessDeclared ==
  /\ Composed("getInlineToolsConfig") => HasLinebreaks(call.ret)
  /\ Composed("composeToolConfig") =>
       IF Declares(call.tool)
       THEN \A f \in OwnKeys(call.ret) :
              LET declared == available[call.tool].fields[f]
              IN declared.t = "obj" =>
                   \A k \in {"br", "wbr"} :
                     /\ k \in OwnKeys(call.ret.fields[f])
                     /\ call.ret.fields[f].fields[k] =
                          IF k \in OwnKeys(declared) THEN declared.fields[k] ELSE True
       ELSE HasLinebreaks(call.ret)

\* a tool that declares br: false for a field was composed over inline rules
C2_Witness ==
  /\ Composed("composeToolConfig")
  /\ Declares(call.tool)
  /\ "text" \in OwnKeys(call.ret)
  /\ call.ret.fields["text"].t = "obj"
  /\ call.ret.fields["text"].fields["br"] = False
  /\ call.ret.fields["text"].fields["wbr"] = True

(* C3 - getAllInlineToolsConfig returns exactly the union of the inline tools'
   rules, and once the aggregate is cached no call changes its contents. *)
C3_AggregateIsUnion ==
  /\ Truthy(inlineToolsConfigCache) => inlineToolsConfigCache = InlineUnion
  /\ Composed("getAllInlineToolsConfig") => call.ret = InlineUnion

(* C4 - for a tool that declares rules, the entry composed for a field is the
   base inline rule set overridden key by key by the declared rule when the
   declared value is a mapping, a boolean or a callable, and the declared
   value itself otherwise. *)
C4_RuleShapedMerged ==
  (Composed("composeToolConfig") /\ Declares(call.tool)) =>
     /\ OwnKeys(call.ret) = OwnKeys(available[call.tool])
     /\ \A f \in OwnKeys(call.ret) :
          LET declared == available[call.tool].fields[f]
              base == WithLinebreaks(EnabledInline(call.tool))
          IN call.ret.fields[f] =
               IF declared.t \in {"obj", "bool", "fn"}
               THEN Overridden(base, declared) ELSE declared

(* C4, amended - for a tool that declares rules, the entry composed for a field
   is the base inline rule set overridden key by key by the declared rule
   when the declared value is a mapping; a declared boolean, callable, number
   or string is copied through unchanged. *)
C4_MappingMerged ==
  (Composed("composeToolConfig") /\ Declares(call.tool)) =>
     /\ OwnKeys(call.ret) = OwnKeys(available[call.tool])
     /\ \A f \in OwnKeys(call.ret) :
          LET declared == available[call.tool].fields[f]
              base == WithLinebreaks(EnabledInline(call.tool))
          IN call.ret.fields[f] =
               IF declared.t = "obj" THEN Overridden(base, declared) ELSE declared

\* declared {a: true} for text over a base holding {a: {href: true}, b: true}
C4_Witness ==
  /\ Composed("composeToolConfig")
  /\ available[call.tool] = Obj([text |-> Obj([a |-> True])])
  /\ WithLinebreaks(EnabledInline(call.tool)) =
       Obj([a |-> Obj([href |-> True]), b |-> True, br |-> True, wbr |-> True])
  /\ call.ret.fields["text"] = Obj([a |-> True, b |-> True, br |-> True, wbr |-> True])

(* C5 - apart from the forced br and wbr, getInlineToolsConfig(t) returns the
   union of all inline tools' rules when inlineToolbar is true, the union of
   the listed tools' rules in list order (a later one overriding) when it is
   a list, and the empty rule set when it is false or absent. *)
C5_InlineConfig ==
  Composed("getInlineToolsConfig") =>
    call.ret = WithLinebreaks(EnabledInline(call.tool))

\* the listed tools share the key b and the one listed later has won
C5_Witness ==
  /\ Composed("getInlineToolsConfig")
  /\ toolsSettings[call.tool] = BoldLink
  /\ Get(InlineSanitize("bold"), "b") = True
  /\ Get(InlineSanitize("link"), "b") = False
  /\ call.ret.fields["b"] = False

-----------------------------------------------------------------------------
(* What the tree sanitizer is expected to return *)

\* w has the shape of v: arrays of the same length, mappings with the same
\* keys, every leaf that is not a string unchanged
RECURSIVE SameShape(_, _)
SameShape(v, w) ==
  CASE v.t = "arr" -> /\ w.t = "arr"
                      /\ Len(w.items) = Len(v.items)
                      /\ \A i \in 1..Len(v.items) : SameShape(v.items[i], w.items[i])
    [] v.t = "obj" -> /\ w.t = "obj"
                      /\ OwnKeys(w) = OwnKeys(v)
                      /\ \A k \in OwnKeys(v) : SameShape(v.fields[k], w.fields[k])
    [] v.t = "str" -> w.t = "str"
    [] OTHER       -> w = v

\* the rule the spec selects for field f of a mapping walked with rules R
SubRule(R, f) ==
  IF Get(R, f).t \in {"obj", "bool", "fn"} THEN Get(R, f) ELSE R

RECURSIVE Concat(_)
Concat(seqs) == IF seqs = <<>> THEN <<>> ELSE Head(seqs) \o Concat(Tail(seqs))

(* C6 - deepSanitize returns a value of the shape of its argument: sequences
   keep their length, mappings keep their keys, and every leaf that is not a
   string (number, boolean, null, absent) is returned unchanged. *)
C6_StructurePreserved ==
  Composed("deepSanitize") => SameShape(call.data, call.ret)

(* C7 - deepSanitize of a string calls the cleaning primitive with the rule
   when the rule is a mapping, with an empty rule set when the rule is false,
   and for every other rule (true, a function, a number, null, absent)
   returns the string unmodified without calling the cleaning primitive. *)
C7_StringLeafDispatch ==
  (Composed("deepSanitize") /\ call.data.t = "str") =>
     IF call.rules.t = "obj"
     THEN call.calls = <<CleanCall(call.data.s, call.rules)>>
     ELSE IF call.rules = False
     THEN call.calls = <<CleanCall(call.data.s, EmptyObj)>>
     ELSE call.calls = <<>> /\ call.ret = call.data

(* C8 - walking a mapping with rules R, the rule used for field f is R[f] if
   and only if R[f] is a mapping, a boolean or a callable; for a number, a
   string, null, undefined or a missing entry the field is sanitized with R. *)
C8_SubRuleSelection ==
  (call.op = "deepSanitize" /\ call.data.t = "obj"
     /\ call.rules.t \notin {"null", "undef"}) =>
     LET names == KeysInOrder(OwnKeys(call.data), 1)
         expected == [i \in 1..Len(names) |->
                        deepSanitize(call.data.fields[names[i]],
                                     SubRule(call.rules, names[i]))]
     IN (\A i \in 1..Len(names) : ~expected[i].err) =>
          /\ ~call.err
          /\ OwnKeys(call.ret) = OwnKeys(call.data)
          /\ \A i \in 1..Len(names) : call.ret.fields[names[i]] = expected[i].val
          /\ call.calls = Concat([i \in 1..Len(names) |-> expected[i].calls])

-----------------------------------------------------------------------------
(* The batch entry point *)

Registered(blocksData) ==
  \A i \in 1..Len(blocksData) : blocksData[i].tool \in ToolNames

\* composeToolConfig(tool) as a caller gets it in the current state
ConfigOf(tool) == composeToolConfig(tool, configCache, inlineToolsConfigCache).ret

(* C9 - sanitizeBlocks on a batch of registered tools returns the same entries
   in the same order with their tool names unchanged; the data of an entry
   is untouched when composeToolConfig of its tool is empty and is otherwise
   deepSanitize of the data under composeToolConfig of its tool. *)
C9_BatchSanitized ==
  (call.op = "sanitizeBlocks" /\ Registered(call.arg)) =>
     /\ ~call.err
     /\ Len(call.blocks) = Len(call.arg)
     /\ \A i \in 1..Len(call.arg) :
          LET toolConfig == ConfigOf(call.arg[i].tool)
          IN /\ call.blocks[i].tool = call.arg[i].tool
             /\ call.blocks[i].data =
                  IF isEmpty(toolConfig) THEN call.arg[i].data
                  ELSE deepSanitize(call.arg[i].data, toolConfig).val

\* a batch of two registered tools came back with both entries cleaned
C9_Witness ==
  /\ call.op = "sanitizeBlocks"
  /\ Registered(call.arg)
  /\ Len(call.arg) = 2
  /\ call.arg[1].tool # call.arg[2].tool
  /\ \A i \in 1..2 : call.blocks[i].data # call.arg[i].data

(* C10 - sanitizeBlocks on a batch with an unregistered tool signals an error,
   and at that moment no entry of the batch has had its data replaced. *)
C10_FailFastUntouched ==
  (call.op = "sanitizeBlocks" /\ ~Registered(call.arg)) =>
     /\ call.err
     /\ call.blocks = call.arg

-----------------------------------------------------------------------------
(* The registry and the caches *)

(* C11 - the tool registry is read-only to the sanitizer: no call of
   composeToolConfig, getInlineToolsConfig, getAllInlineToolsConfig or
   sanitizeBlocks changes a tool's declared rules, an inline tool's rules or
   a tool's settings. *)
C11_RegistryReadOnly == [][registry' = registry]_vars

\* a tool with declared rules was composed in the call that merged the inline
\* registry: the composed field carries wbr, no inline tool does
C11_Witness ==
  /\ Composed("composeToolConfig")
  /\ call.computed
  /\ Declares(call.tool)
  /\ inline # <<>>
  /\ \A i \in 1..Len(inline) : "wbr" \notin OwnKeys(inline[i].sanitize)
  /\ \E f \in OwnKeys(call.ret) :
       /\ call.ret.fields[f].t = "obj"
       /\ "wbr" \in OwnKeys(call.ret.fields[f])
       /\ call.ret.fields[f] # available[call.tool].fields[f]

\* the caches of a session in which nothing was called yet
FreshConfigCache == [t \in ToolNames \cup {UnknownTool} |-> Undefined]

(* C12 - whatever was called before, composeToolConfig(t) returns what it
   returns as the first call of a session on the same registry: the state
   of configCache and inlineToolsConfigCache does not change the result. *)
C12_OrderIndependent ==
  Composed("composeToolConfig") =>
    call.ret = composeToolConfig(call.tool, FreshConfigCache, Null).ret

\* the tool was composed from the registry over an aggregate that an earlier
\* call had cached and br and wbr had been written into
C12_Witness ==
  /\ Composed("composeToolConfig")
  /\ call.queried
  /\ ~call.computed
  /\ toolsSettings[call.tool] = True
  /\ Declares(call.tool)
  /\ Get(InlineUnion, "br") = False
  /\ Get(inlineToolsConfigCache, "br") = True

-----------------------------------------------------------------------------
(* The tree sanitizer over every input *)

\* sequences, mappings, strings, numbers, booleans and null, nested
RECURSIVE JsonLike(_)
JsonLike(v) ==
  CASE v.t = "arr" -> \A i \in 1..Len(v.items) : JsonLike(v.items[i])
    [] v.t = "obj" -> \A k \in OwnKeys(v) : JsonLike(v.fields[k])
    [] OTHER       -> v.t \in {"str", "num", "bool", "null"}

\* rules built from mappings, booleans, numbers and null at any level
RECURSIVE BuiltRules(_)
BuiltRules(r) ==
  IF r.t = "obj" THEN \A k \in OwnKeys(r) : BuiltRules(r.fields[k])
  ELSE r.t \in {"bool", "num", "null"}

(* C13 - deepSanitize is total: for every JSON-like value and every rules
   argument built from mappings, booleans, numbers and null it returns a
   value and raises no error. *)
C13_Total ==
  (call.op = "deepSanitize" /\ JsonLike(call.data) /\ BuiltRules(call.rules)) =>
     ~call.err

\* v with every string leaf cleaned under the one rule set R, the rest as it is
RECURSIVE CleanedWith(_, _)
CleanedWith(v, R) ==
  CASE v.t = "arr" -> Arr([i \in 1..Len(v.items) |-> CleanedWith(v.items[i], R)])
    [] v.t = "obj" -> Obj([k \in OwnKeys(v) |-> CleanedWith(v.fields[k], R)])
    [] v.t = "str" -> Str(sanitizeHTML(v.s, R))
    [] OTHER       -> v

(* C14 - for a tool that declares no rules of its own, sanitizeBlocks cleans
   every string leaf of the tool's data with the tool's base inline rule set,
   whatever the name of the field the string sits under, a field named like
   a key of that rule set (b, a, br) included. *)
C14_EveryLeafCleanedWithBase ==
  (call.op = "sanitizeBlocks" /\ Registered(call.arg)) =>
     \A i \in 1..Len(call.arg) :
       ~Declares(call.arg[i].tool) =>
          call.blocks[i].data =
            CleanedWith(call.arg[i].data,
                        WithLinebreaks(EnabledInline(call.arg[i].tool)))

(* C15 - deepSanitize is idempotent: applied to its own result under the same
   rules it returns that result again; and a string the cleaning primitive
   leaves unchanged under the rules is returned as it is. *)
C15_Idempotent ==
  /\ call.op = "deepSanitizeAgain" => (~call.err /\ call.ret = call.data)
  /\ (call.op = "deepSanitize" /\ call.data.t = "str"
        /\ sanitizeHTML(call.data.s, call.rules) = call.data.s) =>
       (~call.err /\ call.ret = call.data)

\* the first pass dropped a tag inside an array in a mapping, the second
\* pass returned what the first had returned
C15_Witness ==
  /\ call.op = "deepSanitizeAgain"
  /\ ~call.err
  /\ call.arg[1].t = "obj"
  /\ \E k \in OwnKeys(call.arg[1]) :
       /\ call.arg[1].fields[k].t = "arr"
       /\ call.arg[1].fields[k] # call.data.fields[k]
  /\ call.rules.t = "obj"
  /\ call.ret = call.data

-----------------------------------------------------------------------------
(* The session as a whole *)

(* C16 - the inline registry is iterated and merged by getAllInlineToolsConfig
   at most once in a session, also when it holds no inline tool or only
   inline tools with empty rules; from then on the aggregate is cached and a
   later call returns the cached aggregate. *)
C16_AggregateComputedOnce ==
  /\ computes <= 1
  /\ computes = 1 => Truthy(inlineToolsConfigCache)
  /\ (call.op = "getAllInlineToolsConfig" /\ ~call.computed) =>
       (computes = 1 /\ call.ret = inlineToolsConfigCache)

\* an aggregate without any key was returned from the cache
C16_Witness ==
  /\ call.op = "getAllInlineToolsConfig"
  /\ ~call.computed
  /\ computes = 1
  /\ \A i \in 1..Len(inline) : OwnKeys(inline[i].sanitize) = {}
  /\ OwnKeys(call.ret) = {}

(* C17 - composeToolConfig returns no empty rule set for a registered tool, so
   sanitizeBlocks on a batch of registered tools replaces the data of every
   entry: the branch that leaves the data untouched is not taken. *)
C17_NeverEmpty ==
  /\ Composed("composeToolConfig") => ~isEmpty(call.ret)
  /\ (call.op = "sanitizeBlocks" /\ Registered(call.arg)) =>
       call.replaced = 1..Len(call.arg)

\* a tool without declared rules and without inline rules had its data cleaned
C17_Witness ==
  /\ call.op = "sanitizeBlocks"
  /\ Registered(call.arg)
  /\ \E i \in 1..Len(call.arg) :
       /\ ~Declares(call.arg[i].tool)
       /\ EnabledInline(call.arg[i].tool) = EmptyObj
       /\ i \in call.replaced
       /\ call.blocks[i].data # call.arg[i].data

====
